---- MODULE Spec2Model ----
(***************************************************************************)
(* Model of src/src/lib.rs: the two constructors                           *)
(*   <[T; SIZE] as InitWithIndex>::init_with(f)             (lines 47-64)  *)
(*   <Vec<T> as InitWithDynamicIndex>::init_with_size(n, f) (lines 66-74)  *)
(* One behaviour is one call.  Each loop iteration is one step, so that    *)
(* the states in the middle of the fill loop and the unwinding after a     *)
(* panic of the generator are visible.  Ghost state records which          *)
(* elements were constructed, which were dropped and how often.            *)
(***************************************************************************)
EXTENDS Integers, Sequences, FiniteSets

\* Largest SIZE / size explored.
MaxSize == 3
\* Largest element value a generator returns.
MaxVal == 1
\* target_pointer_width.  The 16-bit targets are the ones whose usize::MAX
\* fits the model checker's integers; no step below depends on the width
\* other than through usize_MAX and isize_MAX.
UsizeBits == 16
usize_MAX == 2^UsizeBits - 1
isize_MAX == 2^(UsizeBits - 1) - 1

\* Outcome of f(index), or of growing a Vec, when it panics instead of
\* returning.
Panic == -1

VARIABLES
    pc,        \* "idle", "array_loop", "vec_loop", "returned", "failed",
               \* "aborted"
    kind,      \* "none", "array" (init_with) or "vec" (init_with_size)
    size,      \* SIZE (const generic) or the size argument
    tsize,     \* size_of::<T>() of the element type
    f,         \* the generator: index -> value, or Panic
    index,     \* the loop variable of `for index in 0..size`
    calls,     \* ghost: the arguments f has been called with, in order
    arr,       \* the MaybeUninit<[T; SIZE]> buffer, a sequence of slots
    vec,       \* the Vec<T> under construction, a sequence of elements
    cap,       \* capacity of vec's allocation
    reallocs,  \* ghost: number of times push had to grow the allocation
    drops,     \* ghost: element id -> number of times it was dropped
    result,    \* what the caller received: None or Some(container)
    panics     \* ghost: number of panics that reached the caller

vars == <<pc, kind, size, tsize, f, index, calls, arr, vec, cap, reallocs, drops,
          result, panics>>

Indices == 0..MaxSize
Values == 0..MaxVal
\* size_of::<T>(): zero-sized, one byte, a word, more than 1024 bytes (the
\* classes Vec distinguishes).  What the thread's stack can hold is a matter
\* of the build and of the caller, not of lib.rs: frames are taken to fit.
ElemSizes == {0, 1, 8, 1025}
\* Sizes whose fill loop is explored, and the sizes a call can also be given.
LoopSizes == 0..MaxSize
AllSizes == LoopSizes \cup {isize_MAX, usize_MAX}
\* Func: Fn(usize) -> T, restricted to the indices a call can reach.
Generators == [Indices -> Values \cup {Panic}]

\* A constructed T.  id is ghost: the index whose call produced it.
Elem(id, x) == [init |-> TRUE, id |-> id, val |-> x]
\* A slot of zeroed memory: the all-zero bit pattern, holding no T.
ZeroedSlot == [init |-> FALSE, id |-> -1, val |-> 0]

None == [some |-> FALSE, val |-> <<>>]
Some(c) == [some |-> TRUE, val |-> c]

\* f(index)
call(g, i) == g[i]

\* MaybeUninit::<[T; SIZE]>::zeroed()
zeroed(n) == [p \in 1..n |-> ZeroedSlot]

\* Faulty variant: the pointer is not advanced by index.
write_at_base(a, i, e) == [a EXCEPT ![1] = e]
\* std::ptr::write((ptr as *mut T).add(index), e): no read, no drop of the
\* old contents of the slot.
write(a, i, e) == [a EXCEPT ![i + 1] = e]

\* arr.assume_init(): the buffer, bit for bit, now typed [T; SIZE].
assume_init(a) == a

\* Dropping a MaybeUninit<_> runs no destructor of its contents.
drop_MaybeUninit(a, d) == d

Max(a, b) == IF a >= b THEN a ELSE b

\* Vec::with_capacity(size) panics with 'capacity overflow':
\* size * size_of::<T>() > isize::MAX, computed without overflowing.
capacity_overflow(n, t) == t > 0 /\ n > isize_MAX \div t

\* Vec::with_capacity(size) calls the allocator: a non-empty layout.
allocates(n, t) == t > 0 /\ n > 0

\* Faulty variant: Vec::new() instead of Vec::with_capacity(size).
with_capacity_none(n, t) == IF t = 0 THEN usize_MAX ELSE 0
\* Capacity of Vec::with_capacity(size) when it succeeds: usize::MAX for a
\* zero-sized T, size otherwise.
with_capacity(n, t) == IF t = 0 THEN usize_MAX ELSE n

\* Vec::push on a full allocation of capacity c: the new capacity
\* max(MIN_NON_ZERO_CAP, max(2 * c, c + 1)), where MIN_NON_ZERO_CAP is 8
\* for one-byte elements, 4 up to 1024 bytes and 1 above; Panic
\* ('capacity overflow') for a zero-sized T and when the new allocation
\* would exceed isize::MAX bytes.
grow(c, t) ==
    LET new == Max(IF t = 1 THEN 8 ELSE IF t <= 1024 THEN 4 ELSE 1,
                   Max(2 * c, c + 1))
    IN  IF t = 0 \/ capacity_overflow(new, t) THEN Panic ELSE new

\* Faulty variant: vec.insert(0, e) instead of vec.push(e).
push_front(v, e) == <<e>> \o v
\* Vec::push(e): append at the end.
push(v, e) == Append(v, e)

\* Faulty variant: the Vec is forgotten instead of dropped.
forget_Vec(v, d) == d
\* Dropping a Vec<T> drops each of its len elements once.
drop_Vec(v, d) ==
    [i \in DOMAIN d |-> d[i] + Cardinality({p \in 1..Len(v) : v[p].id = i})]

\* Faulty variant: the range steps by two.
next_index_skip(i) == i + 2
\* Range<usize>::next: step of `for index in 0..size`.
next_index(i) == i + 1

\* Faulty variants: 0..SIZE-1 and 0..=SIZE instead of 0..SIZE.
ArrayRangeDone_short(i, n) == i + 1 >= n
ArrayRangeDone_inclusive(i, n) == i > n
\* `for index in 0..SIZE` is exhausted.
ArrayRangeDone(i, n) == i >= n

\* Faulty variant: 0..=size instead of 0..size.
VecRangeDone_inclusive(i, n) == i > n
\* `for index in 0..size` is exhausted.
VecRangeDone(i, n) == i >= n

Init ==
    /\ pc = "idle"
    /\ kind = "none"
    /\ size = 0
    /\ tsize = 0
    /\ f = [i \in Indices |-> 0]
    /\ index = 0
    /\ calls = <<>>
    /\ arr = <<>>
    /\ vec = <<>>
    /\ cap = 0
    /\ reallocs = 0
    /\ drops = [i \in Indices |-> 0]
    /\ result = None
    /\ panics = 0

\* init_with entered: lines 49-53 up to the first loop test.  (The impl
\* exists only under feature "unsafe", line 47.)  Nothing in init_with
\* branches on size_of::<T>().
InitWithCall ==
    /\ pc = "idle"
    /\ \E n \in LoopSizes, g \in Generators, t \in ElemSizes :
        /\ size' = n
        /\ tsize' = t
        /\ f' = g
        /\ arr' = zeroed(n)
    /\ kind' = "array"
    /\ index' = 0
    /\ pc' = "array_loop"
    /\ UNCHANGED <<calls, vec, cap, reallocs, drops, result, panics>>

\* One iteration of the loop at lines 53-60 in which f(index) returns.
ArrayWrite ==
    /\ pc = "array_loop"
    /\ ~ArrayRangeDone(index, size)
    /\ call(f, index) # Panic
    /\ calls' = Append(calls, index)
    /\ arr' = write(arr, index, Elem(index, call(f, index)))
    /\ index' = next_index(index)
    /\ UNCHANGED <<pc, kind, size, tsize, f, vec, cap, reallocs, drops, result, panics>>

\* One iteration of the loop at lines 53-60 in which f(index) panics: the
\* stack unwinds through init_with, dropping the local arr.
ArrayPanic ==
    /\ pc = "array_loop"
    /\ ~ArrayRangeDone(index, size)
    /\ call(f, index) = Panic
    /\ calls' = Append(calls, index)
    /\ drops' = drop_MaybeUninit(arr, drops)
    /\ panics' = panics + 1
    /\ pc' = "failed"
    /\ UNCHANGED <<kind, size, tsize, f, index, arr, vec, cap, reallocs, result>>

\* Loop exhausted: line 62 returns arr.assume_init().
ArrayAssumeInit ==
    /\ pc = "array_loop"
    /\ ArrayRangeDone(index, size)
    /\ result' = Some(assume_init(arr))
    /\ pc' = "returned"
    /\ UNCHANGED <<kind, size, tsize, f, index, calls, arr, vec, cap, reallocs, drops,
                   panics>>

\* init_with_size entered and Vec::with_capacity(size) succeeded: lines
\* 67-69 up to the first loop test.
InitWithSizeCall ==
    /\ pc = "idle"
    /\ \E n \in LoopSizes, g \in Generators, t \in ElemSizes :
        /\ ~capacity_overflow(n, t)
        /\ size' = n
        /\ tsize' = t
        /\ f' = g
        /\ cap' = with_capacity(n, t)
    /\ kind' = "vec"
    /\ vec' = <<>>
    /\ index' = 0
    /\ pc' = "vec_loop"
    /\ UNCHANGED <<calls, arr, reallocs, drops, result, panics>>

\* init_with_size entered and Vec::with_capacity(size) at line 68 panics
\* with 'capacity overflow': the panic unwinds to the caller before f is
\* called and before a Vec exists.
InitWithSizeCapacityOverflow ==
    /\ pc = "idle"
    /\ \E n \in AllSizes, g \in Generators, t \in ElemSizes :
        /\ capacity_overflow(n, t)
        /\ size' = n
        /\ tsize' = t
        /\ f' = g
    /\ kind' = "vec"
    /\ panics' = panics + 1
    /\ pc' = "failed"
    /\ UNCHANGED <<index, calls, arr, vec, cap, reallocs, drops, result>>

\* init_with_size entered and the allocation made by Vec::with_capacity(size)
\* at line 68 fails: handle_alloc_error aborts the process.
InitWithSizeAllocFail ==
    /\ pc = "idle"
    /\ \E n \in LoopSizes, g \in Generators, t \in ElemSizes :
        /\ ~capacity_overflow(n, t)
        /\ allocates(n, t)
        /\ size' = n
        /\ tsize' = t
        /\ f' = g
    /\ kind' = "vec"
    /\ pc' = "aborted"
    /\ UNCHANGED <<index, calls, arr, vec, cap, reallocs, drops, result, panics>>

\* One iteration of the loop at lines 69-71 in which f(index) returns.
\* Vec::push appends in place while len < capacity.  On a full allocation
\* it grows first: that panics with 'capacity overflow' (the unwind drops
\* the element being pushed and the local vec), or reallocates, or aborts
\* the process when the reallocation fails.
VecPush ==
    /\ pc = "vec_loop"
    /\ ~VecRangeDone(index, size)
    /\ call(f, index) # Panic
    /\ calls' = Append(calls, index)
    /\ LET e == Elem(index, call(f, index)) IN
        \/ /\ Len(vec) # cap
           /\ vec' = push(vec, e)
           /\ index' = next_index(index)
           /\ UNCHANGED <<pc, cap, reallocs, drops, panics>>
        \/ /\ Len(vec) = cap
           /\ grow(cap, tsize) = Panic
           /\ drops' = drop_Vec(Append(vec, e), drops)
           /\ vec' = <<>>
           /\ panics' = panics + 1
           /\ pc' = "failed"
           /\ UNCHANGED <<index, cap, reallocs>>
        \/ /\ Len(vec) = cap
           /\ grow(cap, tsize) # Panic
           /\ cap' = grow(cap, tsize)
           /\ reallocs' = reallocs + 1
           /\ vec' = push(vec, e)
           /\ index' = next_index(index)
           /\ UNCHANGED <<pc, drops, panics>>
        \/ /\ Len(vec) = cap
           /\ grow(cap, tsize) # Panic
           /\ pc' = "aborted"
           /\ UNCHANGED <<index, vec, cap, reallocs, drops, panics>>
    /\ UNCHANGED <<kind, size, tsize, f, arr, result>>

\* Faulty variant: the panic is caught and the loop goes on to the next index.
VecPanic_swallow ==
    /\ pc = "vec_loop"
    /\ ~VecRangeDone(index, size)
    /\ call(f, index) = Panic
    /\ calls' = Append(calls, index)
    /\ index' = next_index(index)
    /\ UNCHANGED <<pc, kind, size, tsize, f, arr, vec, cap, reallocs, drops, result,
                   panics>>

\* One iteration of the loop at lines 69-71 in which f(index) panics: the
\* stack unwinds through init_with_size, dropping the local vec.
VecPanic ==
    /\ pc = "vec_loop"
    /\ ~VecRangeDone(index, size)
    /\ call(f, index) = Panic
    /\ calls' = Append(calls, index)
    /\ drops' = drop_Vec(vec, drops)
    /\ vec' = <<>>
    /\ panics' = panics + 1
    /\ pc' = "failed"
    /\ UNCHANGED <<kind, size, tsize, f, index, arr, cap, reallocs, result>>

\* Loop exhausted: line 72 moves vec to the caller.
VecReturn ==
    /\ pc = "vec_loop"
    /\ VecRangeDone(index, size)
    /\ result' = Some(vec)
    /\ pc' = "returned"
    /\ UNCHANGED <<kind, size, tsize, f, index, calls, arr, vec, cap, reallocs, drops,
                   panics>>

Next ==
    \/ InitWithCall
    \/ ArrayWrite
    \/ ArrayPanic
    \/ ArrayAssumeInit
    \/ InitWithSizeCall
    \/ InitWithSizeCapacityOverflow
    \/ InitWithSizeAllocFail
    \/ VecPush
    \/ VecPanic
    \/ VecReturn

Spec == Init /\ [][Next]_vars

(***************************************************************************)
(* Ghost views used by the properties.                                     *)
(***************************************************************************)
\* <<0, 1, ..., n-1>>
Upto(n) == [p \in 1..n |-> p - 1]
\* Ids of the elements f has returned so far.
Constructed == {calls[n] : n \in {m \in 1..Len(calls) : call(f, calls[m]) # Panic}}
\* f returns for every index of [0, size) it is modelled on.
Total == \A i \in Indices : i < size => call(f, i) # Panic
\* Some call of f has panicked.
GenPanicked == \E n \in 1..Len(calls) : call(f, calls[n]) = Panic
\* The call is over.
Done == pc \in {"returned", "failed"}
\* c has exactly size elements and the one at index i is a live T equal to f(i).
ContentIs(c) ==
    /\ Len(c) = size
    /\ \A i \in 0..(size - 1) : c[i + 1].init /\ c[i + 1].val = call(f, i)

\* C1: init_with with a total generator neither fails nor aborts, and the
\* array it returns has exactly SIZE elements with element i equal to f(i).
C1_ArrayContent ==
    kind = "array" =>
        /\ Total => pc \notin {"failed", "aborted"}
        /\ pc = "returned" => result.some /\ ContentIs(result.val)

C1_Witness ==
    /\ kind = "array" /\ pc = "returned" /\ size >= 2
    /\ call(f, 0) # call(f, 1)

\* C2 as stated: init_with_size with any size and a total generator does not
\* fail, and the Vec it returns has length size with element i equal to f(i).
C2_AnySize ==
    kind = "vec" =>
        /\ Total => pc \notin {"failed", "aborted"}
        /\ pc = "returned" => result.some /\ ContentIs(result.val)

\* C2 (amended): init_with_size(size, f) with a total generator ends in one
\* of three ways, decided at line 68 before any call of f:
\* if size * size_of::<T>() > isize::MAX, Vec::with_capacity panics with
\* 'capacity overflow' and the panic reaches the caller, f never called;
\* otherwise the call fails only if f panics, and the process is aborted
\* only by a failed allocation of Vec::with_capacity (a non-empty one), f
\* never called; whenever init_with_size returns, the Vec has length size
\* with element i equal to f(i).
C2_VecContent ==
    kind = "vec" =>
        /\ capacity_overflow(size, tsize) =>
            pc = "failed" /\ panics = 1 /\ calls = <<>> /\ ~result.some
        /\ (Total /\ ~capacity_overflow(size, tsize)) => pc # "failed"
        /\ pc = "aborted" =>
            /\ allocates(size, tsize) /\ ~capacity_overflow(size, tsize)
            /\ calls = <<>> /\ ~result.some /\ panics = 0
        /\ pc = "returned" => result.some /\ ContentIs(result.val)

C2_Witness ==
    /\ kind = "vec" /\ pc = "returned" /\ size >= 2
    /\ call(f, 0) # call(f, 1)

\* C3: when either constructor returns, the generator has been called with
\* exactly 0, 1, ..., size-1 in that order (so exactly size times).
C3_CallOrder ==
    pc = "returned" => calls = Upto(size)

C3_Witness ==
    pc = "returned" /\ size = MaxSize /\ Len(calls) = MaxSize

\* C4: init_with_size(0, f) never calls f, neither fails nor aborts, and
\* returns the empty Vec, whatever f and the element type are.
C4_ZeroSize ==
    (kind = "vec" /\ size = 0) =>
        /\ calls = <<>>
        /\ pc \notin {"failed", "aborted"}
        /\ pc = "returned" => result = Some(<<>>)

C4_Witness ==
    /\ kind = "vec" /\ size = 0 /\ pc = "returned" /\ tsize > 0
    /\ \A i \in Indices : call(f, i) = Panic

\* C5: when f panics at index k inside init_with, no array is produced and
\* each of the k elements constructed before is dropped by the time the
\* panic reaches the caller.
C5_ArrayNoLeak ==
    (kind = "array" /\ pc = "failed") =>
        /\ ~result.some
        /\ \A id \in Constructed : drops[id] >= 1

\* C6: when f panics at index k inside init_with_size, the elements pushed
\* for 0..k-1 are each dropped exactly once with the Vec, nothing else is
\* dropped, and the caller never receives the Vec.
C6_VecTeardown ==
    kind = "vec" =>
        /\ result.some => pc = "returned"
        /\ GenPanicked =>
            /\ pc = "failed"
            /\ ~result.some
            /\ Constructed = 0..(index - 1)
            /\ \A id \in Indices :
                drops[id] = IF id \in Constructed THEN 1 ELSE 0

C6_Witness ==
    /\ kind = "vec" /\ pc = "failed" /\ GenPanicked
    /\ index >= 2 /\ drops[0] = 1 /\ drops[1] = 1

\* C7: a panic of f ends the construction at that call: it reaches the
\* caller exactly once, f has been called with exactly 0..k and is not
\* called again, and the caller holds either a complete container or none.
C7_AbortOnFailure ==
    /\ panics <= 1
    /\ GenPanicked =>
        /\ pc = "failed"
        /\ panics = 1
        /\ ~result.some
        /\ calls = Upto(index + 1)
        /\ call(f, index) = Panic
        /\ \A j \in 0..(index - 1) : call(f, j) # Panic
    /\ result.some => pc = "returned" /\ panics = 0 /\ ContentIs(result.val)

C7_Witness ==
    /\ kind = "array" /\ pc = "failed" /\ index >= 1 /\ index < size - 1
    /\ panics = 1 /\ GenPanicked

\* C8: in init_with an array reaches the caller only after all SIZE slots
\* were written, every slot of it then holds a constructed element that was
\* never dropped, and only constructed elements are dropped, at most once.
C8_ArraySlotsLive ==
    kind = "array" =>
        /\ result.some =>
            /\ index = size
            /\ \A p \in 1..Len(result.val) :
                result.val[p].init /\ drops[result.val[p].id] = 0
        /\ \A id \in Indices :
            drops[id] <= 1 /\ (drops[id] >= 1 => id \in Constructed)

C8_Witness ==
    /\ kind = "array" /\ pc = "returned" /\ size >= 2
    /\ \A p \in 1..size : arr[p].init

\* C9: init_with_size reserves room for size elements before the first call
\* of f, the length never exceeds the capacity during the fill loop, and no
\* push reallocates.
C9_NoRealloc ==
    (kind = "vec" /\ pc \in {"vec_loop", "returned"}) =>
        /\ cap >= size
        /\ Len(vec) <= cap
        /\ reallocs = 0

C9_Witness ==
    kind = "vec" /\ pc = "vec_loop" /\ size >= 2 /\ Len(vec) = size /\ cap = size

\* A call has made at most size generator calls; once over it has exactly
\* one outcome; a returned container owns every constructed element.
C10_Outcome ==
    /\ Len(calls) <= size
    /\ pc = "failed" => ~result.some /\ panics = 1
    /\ pc = "returned" =>
        /\ result.some /\ panics = 0
        /\ Len(result.val) = size
        /\ Constructed = 0..(size - 1)
        /\ \A id \in Constructed :
            /\ drops[id] = 0
            /\ Cardinality({p \in 1..Len(result.val) : result.val[p].id = id}) = 1

\* C10 as stated: every call of either constructor runs to completion: as
\* long as it has not ended returned or failed it can take a step, it makes
\* at most size generator calls, and a returned container owns all size
\* elements.
C10_AlwaysCompletes ==
    /\ C10_Outcome
    /\ Done \/ ENABLED Next

\* The process was aborted by the failed allocation of
\* Vec::with_capacity(size) at line 68, before any call of f.
Aborted ==
    /\ pc = "aborted" /\ kind = "vec"
    /\ allocates(size, tsize) /\ ~capacity_overflow(size, tsize)
    /\ calls = <<>> /\ ~result.some /\ panics = 0

\* Upper bound on the number of steps the call still takes.
Remaining ==
    IF pc = "idle" THEN MaxSize + 2
    ELSE IF pc \in {"array_loop", "vec_loop"} THEN size - index + 1
    ELSE 0

\* C10 (amended): every call of either constructor either runs to
\* completion, ending returned or failed after at most size generator
\* calls, a returned container owning all size elements, none of them
\* dropped, or (init_with_size only) is cut short before the first
\* generator call by the process abort of a failed allocation in
\* Vec::with_capacity.  Until then a step is always possible and every step
\* brings the end nearer.
C10_RunsToCompletion ==
    /\ [](/\ C10_Outcome
          /\ pc = "aborted" => Aborted
          /\ Done \/ Aborted \/ ENABLED Next)
    /\ [][Remaining' < Remaining]_vars

C10_Witness ==
    kind = "vec" /\ pc = "returned" /\ size >= 2 /\ drops[0] = 0

====
